---------------------------- MODULE Spec2Model ----------------------------
(*************************************************************************)
(* Command / telemetry control protocol of the IoT sensor demo:          *)
(*   - SensorSimulator  (src/sensor_simulator.py)   the sensor agent     *)
(*   - CommandSender    (src/command_sender.py and the copy installed    *)
(*                       on the edge device)        the dispatcher       *)
(*   - data_collector.py                            the telemetry        *)
(*                       ingestor and the sensor_readings table          *)
(*   - iot-dashboard.py                             the reads of the     *)
(*                       dashboard                                       *)
(*                                                                       *)
(* Numbers.  JSON numbers are integers in the model.  Sensor values,     *)
(* base and variance are in thousandths (25000 is 25.0), so that         *)
(* round(value, 2) is a real rounding step; count is a plain integer,    *)
(* interval and timestamps are whole seconds.                            *)
(*                                                                       *)
(* Threads.  Every MQTT client is started with loop_start(): one network *)
(* thread per client reads the socket and invokes on_connect,            *)
(* on_disconnect and on_message, one callback at a time.  inbox[a] is    *)
(* what that thread has still to dispatch, frames[a] the on_message      *)
(* activations that are inside the measurement loop.                     *)
(*************************************************************************)
EXTENDS Integers, Sequences, FiniteSets, TLC

\* ------------------------------------------------------------ bounds
MaxCount == 2       \* largest count of a measure envelope that is sent
MaxCmds == 2        \* command messages put on the bus in one behaviour
MaxDrops == 1       \* broker disconnects per agent in one behaviour
MaxSends == 2       \* send_command calls in one behaviour
MaxRejects == 1     \* publishes the bus rejects, per agent, in one behaviour
MaxReadings == 2    \* readings of one simulate_continuous call
MaxTelemetry == 2   \* telemetry messages other clients publish in one behaviour
MaxWriteErrors == 1 \* sqlite3 errors in one behaviour

\* ------------------------------------------------------------ identities
\* "monitor" is a sensor started with --sensor-id '#'.
Agents == {"temperature", "humidity", "pressure", "monitor"}
Broadcast == "all"
Senders == {"host", "edge"}

\* ------------------------------------------------------------ JSON
Num(n) == [t |-> "num", n |-> n, s |-> ""]
Str(s) == [t |-> "str", n |-> 0, s |-> s]
Null == [t |-> "null", n |-> 0, s |-> ""]
\* A byte that is not UTF-8
Raw(b) == [t |-> "bytes", n |-> b, s |-> ""]

\* bytes.decode() succeeds
Decodable(payload) == \A j \in 1..Len(payload) : payload[j].t # "bytes"

Item(k, v) == [k |-> k, v |-> v]

RECURSIVE json_dumps(_)
json_dumps(d) ==
  IF d = <<>> THEN <<>>
  ELSE <<Str(Head(d).k), Head(d).v>> \o json_dumps(Tail(d))

RECURSIVE ParseItems(_)
ParseItems(text) ==
  IF text = <<>> THEN <<>>
  ELSE <<Item(text[1].s, text[2])>> \o ParseItems(Tail(Tail(text)))

JsonValid(text) ==
  /\ Len(text) % 2 = 0
  /\ \A j \in 1..Len(text) : (j % 2 = 1) => text[j].t = "str"

json_loads(text) == ParseItems(text)

Has(d, key) == \E j \in 1..Len(d) : d[j].k = key

Get(d, key, default) ==
  IF Has(d, key)
  THEN d[CHOOSE j \in 1..Len(d) :
           /\ d[j].k = key
           /\ \A m \in (j+1)..Len(d) : d[m].k # key].v
  ELSE default


\* ------------------------------------------------------------ topics
\* f"commands/{sensor_id}": a topic is the sequence of its levels.
CommandTopic(sensor_id) == <<"commands", sensor_id>>

\* f"{self.topic_prefix}/{self.sensor_type}"
\* The prefix is the sequence of its levels, '/' between them.
TelemetryTopic(prefix, type) == prefix \o <<type>>

\* SensorIdentity, fixed at construction
sensor_type == [a \in Agents |-> a]
\* sensor_id or sensor_type: the sensor type unless --sensor-id is given
sensor_id == [a \in Agents |-> IF a = "monitor" THEN "#" ELSE sensor_type[a]]
\* The sensors started without --sensor-id.
DefaultId == { a \in Agents : sensor_id[a] = sensor_type[a] }
\* --topic-prefix: "humidity" is started with sensors/lab and "monitor" with
\* lab, the others with the default.
DefaultPrefix == <<"sensors">>
topic_prefix ==
  [a \in Agents |-> IF a = "humidity" THEN <<"sensors", "lab">>
                    ELSE IF a = "monitor" THEN <<"lab">>
                    ELSE DefaultPrefix]
\* --listen: "pressure" is started with --simulate instead
listen_commands == [a \in Agents |-> a # "pressure"]

\* ------------------------------------------------------------ envelopes
DefaultCount == 10
DefaultInterval == 1
DefaultBase == 25000
DefaultVariance == 5000

MeasureEnvelope(count, interval, base, variance) ==
  << Item("command", Str("measure")), Item("count", Num(count)),
     Item("interval", Num(interval)), Item("base", Num(base)),
     Item("variance", Num(variance)) >>

StopEnvelope == << Item("command", Str("stop")) >>

\* Payloads that clients of the bus put on the commands/ topics.
BadJson == << Str("{") >>
UnknownCommand == json_dumps(<< Item("command", Str("reset")) >>)
NoCommand == json_dumps(<< Item("count", Num(1)) >>)
BadCount == json_dumps(<< Item("command", Str("measure")),
                          Item("count", Str("many")) >>)

MeasurePayloads ==
  { json_dumps(MeasureEnvelope(c, 1, 25000, 0)) : c \in 1..MaxCount }
  \cup { json_dumps(MeasureEnvelope(1, 0, 25000, 10)) }

CommandPayloads ==
  MeasurePayloads \cup
  { json_dumps(StopEnvelope), BadJson, UnknownCommand, NoCommand, BadCount }

\* The topics of directed commands; commands/all is exercised with the fleet.
CommandTopics == { CommandTopic(sensor_id[a]) : a \in DefaultId }

\* Mutant: whatever is not a measure command is taken for a stop.
CommandBranch_ElseStops(command) ==
  IF command = Str("measure") THEN "measure" ELSE "stop"

\* The if / elif / else on the command field of on_message.
CommandBranch(command) ==
  IF command = Str("measure") THEN "measure"
  ELSE IF command = Str("stop") THEN "stop"
  ELSE "unknown"

\* What a payload is, as on_message will see it.
CommandOf(payload) ==
  IF ~JsonValid(payload) THEN "badjson"
  ELSE CommandBranch(Get(json_loads(payload), "command", Null))

\* ------------------------------------------------------------ state
VARIABLES
  launched,        \* the agents whose process has been started
  mainpc,          \* agent main(): "init", "waiting", "listening", "failed"
  link,            \* agent's MQTT session: "down", "connecting", "up"
  drops,           \* broker disconnects so far, per agent
  subs,            \* topics the broker has the agent subscribed to
  inbox,           \* events the agent's network thread has yet to dispatch
  connected,       \* SensorSimulator.connected
  command_active,  \* SensorSimulator.command_active
  frames,          \* on_message activations inside the measurement loop
  runs,            \* measurement runs started so far, per agent
  clock,           \* time.time() as the agent reads it
  published,       \* client.publish calls of send_sensor_data, per agent
  lastHandled,     \* what the last dispatched callback was
  cmdBus,          \* command messages accepted by the broker, not yet routed
  injected,        \* command messages put on the bus so far
  sconnected,      \* CommandSender.connected, per copy
  slink,           \* the sender's MQTT session: "down", "up"
  sends,           \* send_command calls so far, per sender
  lastCall,        \* the last send_command call of each sender
  cpc,             \* data_collector main: "init", "running", "refused", "crashed"
  clink,           \* the collector's MQTT session: "down", "connecting", "up"
  cinbox,          \* telemetry messages the collector has yet to handle
  cclock,          \* time.time() as the collector reads it
  tableExists,     \* the sensor_readings table has been created
  store,           \* the rows of sensor_readings, in insertion order
  writeErrors,     \* sqlite3 errors so far
  tinjected,       \* telemetry messages put on the bus by other clients so far
  accepted,        \* deliveries that passed insert_data's checks and were written
  lastDelivery,    \* the last message on_message of the collector was called with
  response,        \* the last response of the dashboard's read routes
  wpc,             \* a second writer's insert_data: "init", "idle", "inserted"
  pending,         \* the row of each writer's open transaction
  dbLock           \* the connection holding the database's write lock

agentVars == << launched, mainpc, link, drops, subs, inbox, connected, command_active,
                frames, runs, clock, published, lastHandled >>
busVars == << cmdBus, injected >>
senderVars == << sconnected, slink, sends, lastCall >>
writerVars == << wpc, pending, dbLock >>
collectorVars == << cpc, clink, cclock, tableExists, store, writeErrors, tinjected,
                    accepted, lastDelivery, response, writerVars >>
ingestVars == << cinbox, collectorVars >>
vars == << launched, mainpc, link, drops, subs, inbox, connected, command_active,
           frames, runs, clock, published, lastHandled, cmdBus, injected,
           sconnected, slink, sends, lastCall, cpc, clink, cinbox, cclock,
           tableExists, store, writeErrors, tinjected, accepted, lastDelivery,
           response, wpc, pending, dbLock >>

NoDelivery == [handled |-> FALSE, topic |-> <<>>, payload |-> <<>>, write |-> "none",
               now |-> 0]
NoResponse == [route |-> "none", body |-> <<>>, rows |-> <<>>, during |-> {}]

\* Processes that write to sensor_data.db: two data_collector.py instances.
Writers == {"c1", "c2"}
NoRow == [id |-> 0, topic |-> <<>>, measurement_time |-> Null, value |-> Null]

NoCall == [made |-> FALSE, target |-> "", envelope |-> <<>>, linkUp |-> FALSE,
           attempts |-> <<>>, result |-> FALSE, reported |-> "none"]

InitRest ==
  /\ mainpc = [a \in Agents |-> "init"]
  /\ link = [a \in Agents |-> "down"]
  /\ drops = [a \in Agents |-> 0]
  /\ subs = [a \in Agents |-> {}]
  /\ inbox = [a \in Agents |-> <<>>]
  /\ connected = [a \in Agents |-> FALSE]
  /\ command_active = [a \in Agents |-> FALSE]
  /\ frames = [a \in Agents |-> <<>>]
  /\ runs = [a \in Agents |-> 0]
  /\ clock = [a \in Agents |-> 1000]
  /\ published = [a \in Agents |-> <<>>]
  /\ lastHandled = [a \in Agents |-> "none"]
  /\ cmdBus = <<>>
  /\ injected = 0
  /\ sconnected = [s \in Senders |-> FALSE]
  /\ slink = [s \in Senders |-> "down"]
  /\ sends = [s \in Senders |-> 0]
  /\ lastCall = [s \in Senders |-> NoCall]
  /\ cpc = "init"
  /\ clink = "down"
  /\ cinbox = <<>>
  /\ cclock = 2000
  /\ tableExists = FALSE
  /\ store = <<>>
  /\ writeErrors = 0
  /\ tinjected = 0
  /\ accepted = 0
  /\ lastDelivery = NoDelivery
  /\ response = NoResponse
  /\ wpc = [w \in Writers |-> "init"]
  /\ pending = [w \in Writers |-> NoRow]
  /\ dbLock = "none"


\* ------------------------------------------------------------ helpers
Event(type, rc, topic, payload) ==
  [type |-> type, rc |-> rc, topic |-> topic, payload |-> payload]

RemoveAt(seq, k) == [j \in 1..(Len(seq) - 1) |-> IF j < k THEN seq[j] ELSE seq[j + 1]]

\* Ticks a run has still to take.
Remaining(f) ==
  IF f.pc = "end" THEN 0
  ELSE IF f.pc = "sleep" THEN f.count - f.i - 1
  ELSE IF f.count > f.i THEN f.count - f.i ELSE 0

\* History only: note on the runs in progress what arrives at the agent's
\* client while they run.
Note(f, kind) ==
  [f EXCEPT
     !.stopAt = IF kind = "stop" /\ f.stopAt = -1 THEN f.sent ELSE @,
     !.stopRem = IF kind = "stop" /\ f.stopAt = -1 THEN Remaining(f) ELSE @,
     !.supAt = IF kind = "measure" /\ f.supAt = -1 THEN f.sent ELSE @,
     !.supRem = IF kind = "measure" /\ f.supAt = -1 THEN Remaining(f) ELSE @,
     !.dropAt = IF kind = "disconnect" /\ f.dropAt = -1 THEN f.sent ELSE @,
     !.dropRem = IF kind = "disconnect" /\ f.dropAt = -1 THEN Remaining(f) ELSE @,
     !.sleepAt = IF kind \in {"stop", "measure"} /\ f.pc = "sleep" /\ f.sleepAt = -1
                 THEN f.sent ELSE @]

NoteAll(fs, kind) == [j \in 1..Len(fs) |-> Note(fs[j], kind)]

\* ------------------------------------------------------------ agent: main()
\* connect(): client.connect(...), client.loop_start(), then the bounded wait.
Connect(a) ==
  /\ a \in launched
  /\ mainpc[a] = "init"
  /\ mainpc' = [mainpc EXCEPT ![a] = "waiting"]
  /\ link' = [link EXCEPT ![a] = "connecting"]
  /\ UNCHANGED << launched, drops, subs, inbox, connected, command_active, frames,
                  runs, clock, published, lastHandled >>
  /\ UNCHANGED << busVars, senderVars, ingestVars >>

\* The wait loop of connect() ends because self.connected became true.
ConnectReturns(a) ==
  /\ mainpc[a] = "waiting"
  /\ connected[a]
  /\ mainpc' = [mainpc EXCEPT ![a] = "listening"]
  /\ UNCHANGED << launched, link, drops, subs, inbox, connected, command_active, frames,
                  runs, clock, published, lastHandled >>
  /\ UNCHANGED << busVars, senderVars, ingestVars >>

\* Mutant: the wait loop has no time limit.
ConnectTimeout_Never(a) ==
  /\ FALSE
  /\ UNCHANGED vars

\* The wait loop ends because 10 s went by: TimeoutError, and main()'s
\* finally block calls disconnect(), which stops the network thread.
ConnectTimeout(a) ==
  /\ mainpc[a] = "waiting"
  /\ ~connected[a]
  /\ frames[a] = <<>>
  /\ mainpc' = [mainpc EXCEPT ![a] = "failed"]
  /\ link' = [link EXCEPT ![a] = "down"]
  /\ subs' = [subs EXCEPT ![a] = {}]
  /\ inbox' = [inbox EXCEPT ![a] = <<>>]
  /\ UNCHANGED << launched, drops, connected, command_active, frames, runs, clock,
                  published, lastHandled >>
  /\ UNCHANGED << busVars, senderVars, ingestVars >>

\* ------------------------------------------------------------ broker
\* CONNACK for a session that is being set up.
BrokerConnack(a) ==
  /\ link[a] = "connecting"
  /\ mainpc[a] \in {"waiting", "listening"}
  /\ \E rc \in {0, 5} :
       /\ link' = [link EXCEPT ![a] = IF rc = 0 THEN "up" ELSE "down"]
       /\ inbox' = [inbox EXCEPT ![a] = Append(@, Event("connack", rc, <<>>, <<>>))]
  /\ UNCHANGED << launched, mainpc, drops, subs, connected, command_active, frames, runs,
                  clock, published, lastHandled >>
  /\ UNCHANGED << busVars, senderVars, ingestVars >>

\* The network thread, once it has nothing else to do, reconnects.
Reconnect(a) ==
  /\ link[a] = "down"
  /\ mainpc[a] \in {"waiting", "listening"}
  /\ frames[a] = <<>>
  /\ inbox[a] = <<>>
  /\ link' = [link EXCEPT ![a] = "connecting"]
  /\ UNCHANGED << launched, mainpc, drops, subs, inbox, connected, command_active, frames,
                  runs, clock, published, lastHandled >>
  /\ UNCHANGED << busVars, senderVars, ingestVars >>

\* The session breaks: the client is notified, the (clean) session's
\* subscriptions are gone.
BrokerDrop(a) ==
  /\ link[a] = "up"
  /\ drops[a] < MaxDrops
  /\ drops' = [drops EXCEPT ![a] = @ + 1]
  /\ link' = [link EXCEPT ![a] = "down"]
  /\ subs' = [subs EXCEPT ![a] = {}]
  /\ inbox' = [inbox EXCEPT ![a] = Append(@, Event("disconnect", 0, <<>>, <<>>))]
  /\ frames' = [frames EXCEPT ![a] = NoteAll(@, "disconnect")]
  /\ UNCHANGED << launched, mainpc, connected, command_active, runs, clock, published,
                  lastHandled >>
  /\ UNCHANGED << busVars, senderVars, ingestVars >>

\* The broker's matching of a topic against a subscription's filter: level
\* by level, '+' standing for any one level and a final '#' for any number
\* of levels.
RECURSIVE FilterMatches(_, _)
FilterMatches(topic, filter) ==
  IF filter = <<>> THEN topic = <<>>
  ELSE IF Head(filter) = "#" THEN Len(filter) = 1
  ELSE IF topic = <<>> THEN FALSE
  ELSE /\ Head(filter) \in {"+", Head(topic)}
       /\ FilterMatches(Tail(topic), Tail(filter))

Receives(a, topic) ==
  /\ link[a] = "up"
  /\ \E filter \in subs[a] : filter = topic \/ FilterMatches(topic, filter)

\* Some client of the bus publishes a payload on a commands/ topic that has
\* a subscriber (the broker drops what nobody is subscribed to); the broker
\* takes one message at a time.
Inject ==
  /\ injected < MaxCmds
  /\ cmdBus = <<>>
  /\ \E topic \in CommandTopics, payload \in CommandPayloads :
       /\ \E a \in Agents : Receives(a, topic)
       /\ cmdBus' = Append(cmdBus, [topic |-> topic, payload |-> payload])
  /\ injected' = injected + 1
  /\ UNCHANGED << agentVars, senderVars, ingestVars >>

\* The broker routes the oldest command message to every subscriber.
BrokerForward ==
  /\ cmdBus # <<>>
  /\ LET m == Head(cmdBus)
     IN  /\ inbox' = [a \in Agents |->
                        IF Receives(a, m.topic)
                        THEN Append(inbox[a], Event("message", 0, m.topic, m.payload))
                        ELSE inbox[a]]
         /\ frames' = [a \in Agents |->
                        IF Receives(a, m.topic)
                        THEN NoteAll(frames[a], CommandOf(m.payload))
                        ELSE frames[a]]
  /\ cmdBus' = Tail(cmdBus)
  /\ UNCHANGED << launched, mainpc, link, drops, subs, connected, command_active, runs,
                  clock, published, lastHandled, injected >>
  /\ UNCHANGED << senderVars, ingestVars >>


\* ------------------------------------------------------------ agent: callbacks
\* Mutant: every callback is invoked on a thread of its own.
NetworkThreadFree_PerCallback(a) == TRUE

\* loop_start(): one network thread per client, so a callback is invoked
\* only when no other callback of that client is running.
NetworkThreadFree(a) == frames[a] = <<>>

NewFrame(a, count, interval, base, variance) ==
  [run |-> runs[a] + 1, count |-> count, interval |-> interval, base |-> base,
   variance |-> variance, i |-> 0, pc |-> "loop", sent |-> 0,
   stopAt |-> -1, stopRem |-> 0, supAt |-> -1, supRem |-> 0,
   dropAt |-> -1, dropRem |-> 0, sleepAt |-> -1, failAt |-> -1]

\* Mutant: the agent subscribes to its own command topic only.
on_connect_OwnTopicOnly(a, reason_code) ==
  /\ connected' = [connected EXCEPT ![a] = IF reason_code = 0 THEN TRUE ELSE @]
  /\ subs' = [subs EXCEPT ![a] =
               IF reason_code = 0 /\ listen_commands[a] /\ link[a] = "up"
               THEN @ \cup {CommandTopic(sensor_id[a])}
               ELSE @]
  /\ lastHandled' = [lastHandled EXCEPT ![a] =
                      IF reason_code = 0 THEN "connack_ok" ELSE "connack_fail"]
  /\ UNCHANGED << command_active, frames, runs >>

\* Mutant: the reason code is not looked at.
on_connect_AnyReasonCode(a, reason_code) ==
  /\ connected' = [connected EXCEPT ![a] = TRUE]
  /\ subs' = [subs EXCEPT ![a] =
               IF listen_commands[a] /\ link[a] = "up"
               THEN @ \cup {CommandTopic(sensor_id[a]), CommandTopic(Broadcast)}
               ELSE @]
  /\ lastHandled' = [lastHandled EXCEPT ![a] =
                      IF reason_code = 0 THEN "connack_ok" ELSE "connack_fail"]
  /\ UNCHANGED << command_active, frames, runs >>

\* client.subscribe takes effect only on a session that is still up.
on_connect(a, reason_code) ==
  /\ connected' = [connected EXCEPT ![a] = IF reason_code = 0 THEN TRUE ELSE @]
  /\ subs' = [subs EXCEPT ![a] =
               IF reason_code = 0 /\ listen_commands[a] /\ link[a] = "up"
               THEN @ \cup {CommandTopic(sensor_id[a]), CommandTopic(Broadcast)}
               ELSE @]
  /\ lastHandled' = [lastHandled EXCEPT ![a] =
                      IF reason_code = 0 THEN "connack_ok" ELSE "connack_fail"]
  /\ UNCHANGED << command_active, frames, runs >>

on_disconnect(a) ==
  /\ connected' = [connected EXCEPT ![a] = FALSE]
  /\ lastHandled' = [lastHandled EXCEPT ![a] = "disconnect"]
  /\ UNCHANGED << subs, command_active, frames, runs >>

on_message(a, payload) ==
  IF ~JsonValid(payload)
  THEN \* json.JSONDecodeError
       /\ lastHandled' = [lastHandled EXCEPT ![a] = "badjson"]
       /\ UNCHANGED << connected, subs, command_active, frames, runs >>
  ELSE
    LET command_data == json_loads(payload)
        branch == CommandBranch(Get(command_data, "command", Null))
        count == Get(command_data, "count", Num(DefaultCount))
        interval == Get(command_data, "interval", Num(DefaultInterval))
        base == Get(command_data, "base", Num(DefaultBase))
        variance == Get(command_data, "variance", Num(DefaultVariance))
    IN  CASE branch = "measure" ->
               /\ command_active' = [command_active EXCEPT ![a] = TRUE]
               /\ IF count.t = "num"
                  THEN /\ frames' = [frames EXCEPT ![a] =
                            Append(@, NewFrame(a, count.n, interval, base, variance))]
                       /\ runs' = [runs EXCEPT ![a] = @ + 1]
                       /\ lastHandled' = [lastHandled EXCEPT ![a] = "measure"]
                  ELSE \* range(count) raises TypeError, caught at the end
                       /\ lastHandled' = [lastHandled EXCEPT ![a] = "measure_error"]
                       /\ UNCHANGED << frames, runs >>
               /\ UNCHANGED << connected, subs >>
          [] branch = "stop" ->
               /\ command_active' = [command_active EXCEPT ![a] = FALSE]
               /\ lastHandled' = [lastHandled EXCEPT ![a] = "stop"]
               /\ UNCHANGED << connected, subs, frames, runs >>
          [] OTHER ->
               /\ lastHandled' = [lastHandled EXCEPT ![a] = "unknown"]
               /\ UNCHANGED << connected, subs, command_active, frames, runs >>

\* The network thread takes the next event and invokes its callback.
Dispatch(a) ==
  /\ mainpc[a] \in {"waiting", "listening"}
  /\ inbox[a] # <<>>
  /\ NetworkThreadFree(a)
  /\ LET e == Head(inbox[a])
     IN  CASE e.type = "connack" -> on_connect(a, e.rc)
           [] e.type = "disconnect" -> on_disconnect(a)
           [] OTHER -> on_message(a, e.payload)
  /\ inbox' = [inbox EXCEPT ![a] = Tail(@)]
  /\ UNCHANGED << launched, mainpc, link, drops, clock, published >>
  /\ UNCHANGED << busVars, senderVars, ingestVars >>

\* ------------------------------------------------------------ agent: the loop
\* Mutant: range(count - 1)
MoreTicks_OneShort(f) == f.i < f.count - 1

\* Mutant: the body runs once before the range is looked at.
MoreTicks_DoWhile(f) == f.i < f.count \/ f.i = 0

\* for i in range(count)
MoreTicks(f) == f.i < f.count

\* random.uniform(-variance, variance), by a few of its outcomes
Samples(variance) ==
  IF variance = 0 THEN {0}
  ELSE { x \in {-variance, 4} : (x >= -variance /\ x <= variance)
                                   \/ (x >= variance /\ x <= -variance) }

\* round(value, 2) on thousandths: to the nearest ten, ties to even
Round2(x) ==
  LET r == x % 10
      lo == x - r
  IN  IF r < 5 THEN lo
      ELSE IF r > 5 THEN lo + 10
      ELSE IF (lo \div 10) % 2 = 0 THEN lo ELSE lo + 10

PublishResults == {"ok", "error"}

Rejected(a) ==
  Cardinality({ j \in 1..Len(published[a]) : published[a][j].rc = "error" })

\* What client.publish answers to the agent.
AgentPublishResults(a) ==
  IF Rejected(a) < MaxRejects THEN PublishResults ELSE {"ok"}

TelemetryRecord(a, timestamp, value) ==
  << Item("timestamp", Num(timestamp)), Item("value", Num(value)),
     Item("sensor_type", Str(sensor_type[a])) >>

\* send_sensor_data(value): what it publishes and what it returns, rc being
\* what client.publish answers.
send_sensor_data(a, run, value, rc) ==
  IF ~connected[a]
  THEN [called |-> FALSE, ret |-> FALSE, entry |-> <<>>]
  ELSE [called |-> TRUE, ret |-> TRUE,
        entry |-> << [run |-> run,
                      topic |-> TelemetryTopic(topic_prefix[a], sensor_type[a]),
                      payload |-> json_dumps(TelemetryRecord(a, clock[a], value)),
                      rc |-> rc, ret |-> TRUE,
                      value |-> value, timestamp |-> clock[a]] >>]

\* Mutant: the collector subscribes to every topic.
TOPIC_SUBSCRIPTION_All == <<"#">>

\* TOPIC_SUBSCRIPTION = "sensors/#"
TOPIC_SUBSCRIPTION == <<"sensors", "#">>

\* MQTT topic filter with a trailing '#': the levels before it, then any
\* number of levels, none included.
TopicMatches(topic, filter) ==
  LET n == Len(filter) - 1
  IN  /\ filter[Len(filter)] = "#"
      /\ Len(topic) >= n
      /\ \A j \in 1..n : topic[j] = filter[j]

\* Mutant: the broker hands every message to the collector twice.
ToCollector_Twice(a, entry) ==
  IF /\ entry # <<>>
     /\ link[a] = "up"
     /\ clink = "up"
     /\ entry[1].rc = "ok"
  THEN << [topic |-> entry[1].topic, payload |-> entry[1].payload],
          [topic |-> entry[1].topic, payload |-> entry[1].payload] >>
  ELSE <<>>

\* What the broker hands to the collector of a publish of agent a: the
\* messages it took, on a session that is up, if the collector's
\* subscription is in place.
ToCollector(a, entry) ==
  IF /\ entry # <<>>
     /\ link[a] = "up"
     /\ clink = "up"
     /\ entry[1].rc = "ok"
     /\ TopicMatches(entry[1].topic, TOPIC_SUBSCRIPTION)
  THEN << [topic |-> entry[1].topic, payload |-> entry[1].payload] >>
  ELSE <<>>

\* One pass through the body of the for loop, up to the sleep.  An
\* exception raised in the body is caught by on_message's last handler,
\* which returns with command_active as it is.
Tick(a) ==
  /\ \E k \in 1..Len(frames[a]) :
       LET f == frames[a][k]
           raised == /\ frames' = [frames EXCEPT ![a] = RemoveAt(@, k)]
                     /\ lastHandled' = [lastHandled EXCEPT ![a] = "measure_error"]
       IN  /\ f.pc = "loop"
           /\ IF ~MoreTicks(f) \/ ~command_active[a]
              THEN \* the range is used up, or the break
                   /\ frames' = [frames EXCEPT ![a][k].pc = "end"]
                   /\ UNCHANGED << published, lastHandled, cinbox >>
              ELSE IF f.base.t # "num" \/ f.variance.t # "num"
              THEN \* TypeError in base + random.uniform(...)
                   /\ raised
                   /\ UNCHANGED << published, cinbox >>
              ELSE \E off \in Samples(f.variance.n), rc \in AgentPublishResults(a) :
                     LET value == Round2(f.base.n + off)
                         r == send_sensor_data(a, f.run, value, rc)
                         sent == IF r.called THEN f.sent + 1 ELSE f.sent
                         g == [f EXCEPT
                                 !.sent = sent,
                                 !.failAt = IF r.called /\ rc = "error" /\ @ = -1
                                            THEN sent ELSE @]
                     IN  /\ published' = [published EXCEPT ![a] = @ \o r.entry]
                         /\ cinbox' = cinbox \o ToCollector(a, r.entry)
                         /\ IF f.i < f.count - 1
                            THEN IF f.interval.t = "num" /\ f.interval.n >= 0
                                 THEN /\ frames' = [frames EXCEPT ![a][k] =
                                                      [g EXCEPT !.pc = "sleep"]]
                                      /\ UNCHANGED lastHandled
                                 ELSE raised   \* time.sleep raises
                            ELSE /\ frames' = [frames EXCEPT ![a][k] =
                                                 [g EXCEPT !.pc = "end", !.i = @ + 1]]
                                 /\ UNCHANGED lastHandled
  /\ UNCHANGED << launched, mainpc, link, drops, subs, inbox, connected,
                  command_active, runs, clock >>
  /\ UNCHANGED << busVars, senderVars, collectorVars >>

\* Mutant: the loop index is not advanced.
Wake_NoAdvance(a) ==
  /\ \E k \in 1..Len(frames[a]) :
       LET f == frames[a][k]
       IN  /\ f.pc = "sleep"
           /\ frames' = [frames EXCEPT ![a][k] = [f EXCEPT !.pc = "loop"]]
           /\ clock' = [clock EXCEPT ![a] = @ + f.interval.n]
  /\ UNCHANGED << launched, mainpc, link, drops, subs, inbox, connected, command_active,
                  runs, published, lastHandled >>
  /\ UNCHANGED << busVars, senderVars, ingestVars >>

\* time.sleep(interval) returns.
Wake(a) ==
  /\ \E k \in 1..Len(frames[a]) :
       LET f == frames[a][k]
       IN  /\ f.pc = "sleep"
           /\ frames' = [frames EXCEPT ![a][k] = [f EXCEPT !.pc = "loop", !.i = @ + 1]]
           /\ clock' = [clock EXCEPT ![a] = @ + f.interval.n]
  /\ UNCHANGED << launched, mainpc, link, drops, subs, inbox, connected, command_active,
                  runs, published, lastHandled >>
  /\ UNCHANGED << busVars, senderVars, ingestVars >>

\* After the loop: self.command_active = False, and on_message returns.
Finish(a) ==
  /\ \E k \in 1..Len(frames[a]) :
       /\ frames[a][k].pc = "end"
       /\ frames' = [frames EXCEPT ![a] = RemoveAt(@, k)]
  /\ command_active' = [command_active EXCEPT ![a] = FALSE]
  /\ UNCHANGED << launched, mainpc, link, drops, subs, inbox, connected, runs, clock,
                  published, lastHandled >>
  /\ UNCHANGED << busVars, senderVars, ingestVars >>

AgentNext ==
  \E a \in Agents :
    \/ Connect(a)
    \/ ConnectReturns(a)
    \/ ConnectTimeout(a)
    \/ BrokerConnack(a)
    \/ Reconnect(a)
    \/ BrokerDrop(a)
    \/ Dispatch(a)
    \/ Tick(a)
    \/ Wake(a)
    \/ Finish(a)

Next ==
  \/ AgentNext
  \/ Inject
  \/ BrokerForward

\* One sensor process is running.
Init == launched = {"temperature"} /\ InitRest

Spec == Init /\ [][Next]_vars


\* ------------------------------------------------------------ command sender
\* The host copy registers on_disconnect; the copy installed on the edge
\* device registers on_connect only.
HasDisconnectHandler(s) == s = "host"

SenderEnvelopes ==
  { MeasureEnvelope(c, 1, 25000, 0) : c \in 1..MaxCount } \cup { StopEnvelope }

Targets == DefaultId \cup {Broadcast}

\* What client.publish can answer: without a session nothing can be sent.
ClientPublishResults(up) == IF up THEN PublishResults ELSE {"error"}

\* The sender's session is set up or refused; on_connect(reason_code).
SenderConnack(s) ==
  /\ slink[s] = "down"
  /\ \E reason_code \in {0, 5} :
       /\ slink' = [slink EXCEPT ![s] = IF reason_code = 0 THEN "up" ELSE "down"]
       /\ sconnected' = [sconnected EXCEPT ![s] = IF reason_code = 0 THEN TRUE ELSE @]
  /\ UNCHANGED << sends, lastCall >>
  /\ UNCHANGED << agentVars, busVars, ingestVars >>

\* The sender's session breaks; on_disconnect, where there is one.
SenderDrop(s) ==
  /\ slink[s] = "up"
  /\ slink' = [slink EXCEPT ![s] = "down"]
  /\ sconnected' = [sconnected EXCEPT ![s] = IF HasDisconnectHandler(s) THEN FALSE ELSE @]
  /\ UNCHANGED << sends, lastCall >>
  /\ UNCHANGED << agentVars, busVars, ingestVars >>

\* Mutant: a publish the client rejects is tried once more.
send_command_Retry(s, target, command_data, rc) ==
  IF ~sconnected[s]
  THEN [attempts |-> <<>>, result |-> FALSE]
  ELSE LET try == [topic |-> CommandTopic(target),
                   payload |-> json_dumps(command_data), rc |-> rc]
       IN  [attempts |-> IF rc = "ok" THEN << try >> ELSE << try, try >>,
            result |-> (rc = "ok")]

\* send_command(sensor_id, command_data): the client.publish calls it makes
\* and what it returns, rc being what client.publish answers.
send_command(s, target, command_data, rc) ==
  IF ~sconnected[s]
  THEN [attempts |-> <<>>, result |-> FALSE]
  ELSE [attempts |-> << [topic |-> CommandTopic(target),
                         payload |-> json_dumps(command_data), rc |-> rc] >>,
        result |-> (rc = "ok")]

\* The messages the broker accepts out of a call's publish attempts.
Accepted(attempts) ==
  IF attempts # <<>> /\ attempts[1].rc = "ok"
  THEN << [topic |-> attempts[1].topic, payload |-> attempts[1].payload] >>
       \o (IF Len(attempts) > 1 /\ attempts[2].rc = "ok"
           THEN << [topic |-> attempts[2].topic, payload |-> attempts[2].payload] >>
           ELSE <<>>)
  ELSE <<>>

SendCommand(s) ==
  /\ sends["host"] + sends["edge"] < MaxSends
  /\ \E target \in Targets, command_data \in SenderEnvelopes,
        rc \in ClientPublishResults(slink[s] = "up") :
       LET r == send_command(s, target, command_data, rc)
       IN  /\ lastCall' = [lastCall EXCEPT ![s] =
                 [made |-> TRUE, target |-> target, envelope |-> command_data,
                  linkUp |-> slink[s] = "up", attempts |-> r.attempts,
                  result |-> r.result, reported |-> "none"]]
           /\ cmdBus' = cmdBus \o Accepted(r.attempts)
  /\ sends' = [sends EXCEPT ![s] = @ + 1]
  /\ UNCHANGED << sconnected, slink, injected >>
  /\ UNCHANGED << agentVars, ingestVars >>

SenderNext ==
  \E s \in Senders :
    \/ SenderConnack(s)
    \/ SenderDrop(s)
    \/ SendCommand(s)

\* The two command senders on their own.
SpecSender == Init /\ [][SenderNext]_vars


\* ------------------------------------------------------------ properties
RunCount(a, run) ==
  Cardinality({ j \in 1..Len(published[a]) : published[a][j].run = run })

\* count a positive integer, interval and variance non-negative numbers
ValidRun(f) ==
  /\ f.count >= 1
  /\ f.interval.t = "num" /\ f.interval.n >= 0
  /\ f.base.t = "num"
  /\ f.variance.t = "num" /\ f.variance.n >= 0

IsMeasureEvent(e) ==
  /\ e.type = "message"
  /\ JsonValid(e.payload)
  /\ Get(json_loads(e.payload), "command", Null) = Str("measure")

\* invalid JSON, or a command value that is neither measure nor stop
IsMalformed(payload) ==
  \/ ~JsonValid(payload)
  \/ Get(json_loads(payload), "command", Null) \notin {Str("measure"), Str("stop")}

\* C1: a run started by a valid measure envelope with count N, during which
\* no stop and no further measure envelope arrives, has published exactly N
\* telemetry records when its loop is over, and once the handler has
\* returned the agent is idle again (command_active = FALSE).
C1_ExactlyCountPublished ==
  \A a \in Agents :
    /\ \A k \in 1..Len(frames[a]) :
         LET f == frames[a][k]
         IN  (f.pc = "end" /\ ValidRun(f) /\ f.stopAt = -1 /\ f.supAt = -1)
               => /\ f.sent = f.count
                  /\ RunCount(a, f.run) = f.count
    /\ (frames[a] = <<>> /\ lastHandled[a] = "measure") => ~command_active[a]

C1_Witness ==
  \E a \in Agents :
    /\ frames[a] = <<>>
    /\ lastHandled[a] = "measure"
    /\ runs[a] = 1
    /\ RunCount(a, 1) = 2
    /\ ~command_active[a]

\* C2: once a stop envelope has arrived at an agent that is measuring, the
\* run publishes at most one more record, never more than it had left, and
\* (when more than the tick in progress was left) does not go on to publish
\* its full count.
C2_StopHaltsRun ==
  \A a \in Agents : \A k \in 1..Len(frames[a]) :
    LET f == frames[a][k]
    IN  f.stopAt >= 0 =>
          /\ f.sent - f.stopAt <= 1
          /\ f.sent - f.stopAt <= f.stopRem
          /\ (f.stopRem > 1 => f.sent < f.count)

\* C3: a measure envelope that arrives while a run has more than the tick in
\* progress left replaces it: the superseded run publishes fewer records
\* than its count, and none after the first record of the new run.
C3_MeasureSupersedes ==
  \A a \in Agents :
    /\ \A k \in 1..Len(frames[a]) :
         LET f == frames[a][k]
         IN  (f.supAt >= 0 /\ f.supRem > 1) => f.sent < f.count
    /\ \A i, j \in 1..Len(published[a]) :
         i < j => published[a][i].run <= published[a][j].run

\* C4: an agent never has two measurement loops in progress, and the records
\* of two runs are never interleaved.
C4_AtMostOneRun ==
  \A a \in Agents :
    /\ Len(frames[a]) <= 1
    /\ \A i, j \in 1..Len(published[a]) :
         (i < j /\ published[a][i].run = published[a][j].run)
           => \A m \in i..j : published[a][m].run = published[a][i].run

C4_Witness ==
  \E a \in Agents :
    /\ Len(frames[a]) = 1
    /\ frames[a][1].pc = "sleep"
    /\ \E j \in 1..Len(inbox[a]) : IsMeasureEvent(inbox[a][j])

\* C5: a run that was suspended between two ticks when a stop or a measure
\* envelope arrived publishes no record after that arrival.
C5_SleepInterruptible ==
  \A a \in Agents : \A k \in 1..Len(frames[a]) :
    LET f == frames[a][k]
    IN  f.sleepAt >= 0 => f.sent = f.sleepAt

\* C6: a run that was in progress when the broker's disconnect notification
\* arrived is abandoned: beyond the tick in progress it publishes no record
\* after that arrival, and so does not complete its count.
C6_DisconnectAbandonsRun ==
  \A a \in Agents : \A k \in 1..Len(frames[a]) :
    LET f == frames[a][k]
    IN  f.dropAt >= 0 =>
          /\ f.sent - f.dropAt <= 1
          /\ (f.dropRem > 1 => f.sent < f.count)

\* C7: a publish the bus rejects ends the run, no later tick publishes, and
\* send_sensor_data reports the failure to its caller.
C7_PublishFailureAborts ==
  \A a \in Agents :
    /\ \A k \in 1..Len(frames[a]) :
         LET f == frames[a][k]
         IN  f.failAt >= 0 => f.sent = f.failAt
    /\ \A j \in 1..Len(published[a]) :
         published[a][j].rc = "error" => ~published[a][j].ret

\* C8: the callback that handles a malformed command payload changes neither
\* command_active nor connected, starts no run and publishes nothing.
C8_MalformedDiscarded ==
  [][ \A a \in Agents :
        ( /\ inbox[a] # <<>>
          /\ Head(inbox[a]).type = "message"
          /\ IsMalformed(Head(inbox[a]).payload)
          /\ inbox'[a] = Tail(inbox[a]) )
        => /\ command_active'[a] = command_active[a]
           /\ connected'[a] = connected[a]
           /\ frames'[a] = frames[a]
           /\ runs'[a] = runs[a]
           /\ published'[a] = published[a] ]_vars

C8_Witness ==
  \E a \in Agents :
    /\ lastHandled[a] \in {"badjson", "unknown"}
    /\ command_active[a]
    /\ connected[a]

\* C9: a send_command call made while the sender's session is down returns
\* False and makes no publish, for both copies of the sender.
C9_NoPublishWhenDown ==
  \A s \in Senders :
    (lastCall[s].made /\ ~lastCall[s].linkUp)
      => /\ ~lastCall[s].result
         /\ lastCall[s].attempts = <<>>

\* C10: a send_command call makes at most one publish, on commands/{target},
\* with a payload that decodes to the envelope it was given.
C10_AtMostOnePublish ==
  \A s \in Senders :
    lastCall[s].made =>
      /\ Len(lastCall[s].attempts) <= 1
      /\ \A j \in 1..Len(lastCall[s].attempts) :
           LET p == lastCall[s].attempts[j]
           IN  /\ p.topic = <<"commands", lastCall[s].target>>
               /\ JsonValid(p.payload)
               /\ json_loads(p.payload) = lastCall[s].envelope

C10_Witness ==
  \E s \in Senders :
    /\ lastCall[s].made
    /\ Len(lastCall[s].attempts) = 1
    /\ lastCall[s].attempts[1].rc = "error"
    /\ lastCall[s].linkUp


\* ------------------------------------------------------------ the fleet
\* Two listening agents on one bus.
Fleet == { a \in DefaultId : listen_commands[a] }

\* Single-reading measures: a run is one pass of the loop, without a sleep.
FleetPayloads ==
  { json_dumps(MeasureEnvelope(1, 0, 25000, 0)), json_dumps(StopEnvelope), BadJson }

FleetTopics == { CommandTopic(t) : t \in Fleet \cup {Broadcast} }

\* Some client of the bus publishes on a commands/ topic, subscribed to or
\* not.
FleetInject ==
  /\ injected < MaxCmds
  /\ cmdBus = <<>>
  /\ \E topic \in FleetTopics, payload \in FleetPayloads :
       cmdBus' = Append(cmdBus, [topic |-> topic, payload |-> payload])
  /\ injected' = injected + 1
  /\ UNCHANGED << agentVars, senderVars, ingestVars >>

FleetNext ==
  \/ \E a \in Fleet :
       \/ Connect(a)
       \/ ConnectReturns(a)
       \/ BrokerConnack(a)
       \/ Dispatch(a)
       \/ Tick(a)
       \/ Finish(a)
  \/ FleetInject
  \/ BrokerForward

InitFleet == launched = Fleet /\ InitRest

SpecFleet == InitFleet /\ [][FleetNext]_vars

\* The outcome on_message reports for a payload, read off the payload alone.
HandledAs(payload) ==
  IF ~JsonValid(payload) THEN "badjson"
  ELSE LET d == json_loads(payload)
           command == Get(d, "command", Null)
       IN  IF command = Str("measure")
           THEN IF Get(d, "count", Num(DefaultCount)).t = "num"
                THEN "measure" ELSE "measure_error"
           ELSE IF command = Str("stop") THEN "stop" ELSE "unknown"

\* C11: a message on commands/all is handed to every agent that is
\* connected and has subscribed, whatever its sensor id, and an agent that
\* takes a command message from its inbox does with it what the payload
\* alone determines, be the topic commands/all or its own commands/<id>:
\* a measure starts one run with the envelope's count, a stop clears
\* command_active, anything else changes nothing.
C11_BroadcastAsDirect ==
  [][ /\ (cmdBus # <<>> /\ cmdBus' = Tail(cmdBus)
           /\ Head(cmdBus).topic = CommandTopic(Broadcast))
         => \A a \in launched :
              (link[a] = "up" /\ connected[a] /\ listen_commands[a])
              => inbox'[a] = Append(inbox[a],
                                    Event("message", 0, Head(cmdBus).topic,
                                          Head(cmdBus).payload))
      /\ \A a \in launched :
           (/\ inbox[a] # <<>>
            /\ inbox'[a] = Tail(inbox[a])
            /\ Head(inbox[a]).type = "message"
            /\ Head(inbox[a]).topic \in {CommandTopic(Broadcast),
                                          CommandTopic(sensor_id[a])})
           => LET p == Head(inbox[a]).payload
                  h == HandledAs(p)
              IN  /\ lastHandled'[a] = h
                  /\ h = "measure"
                     => /\ command_active'[a]
                        /\ runs'[a] = runs[a] + 1
                        /\ Len(frames'[a]) = Len(frames[a]) + 1
                        /\ frames'[a][Len(frames'[a])].count =
                             Get(json_loads(p), "count", Num(DefaultCount)).n
                  /\ h = "stop"
                     => ~command_active'[a] /\ frames'[a] = frames[a]
                  /\ h \in {"badjson", "unknown"}
                     => /\ command_active'[a] = command_active[a]
                        /\ frames'[a] = frames[a]
                        /\ runs'[a] = runs[a]
    ]_vars

\* One broadcast measure, and each of the two agents has published a run
\* for it.
C11_Witness ==
  /\ injected = 1
  /\ cmdBus = <<>>
  /\ \A a \in Fleet :
       /\ runs[a] = 1
       /\ \E j \in 1..Len(published[a]) :
            published[a][j].run = 1 /\ published[a][j].rc = "ok"

\* ------------------------------------------------------------ the store
\* A row of sensor_readings; system_timestamp, which nothing reads, is left
\* out.
Row(id, topic, measurement_time, value) ==
  [id |-> id, topic |-> topic, measurement_time |-> measurement_time, value |-> value]

\* id INTEGER PRIMARY KEY: one more than the largest rowid in the table.
NextId(rows) ==
  IF rows = <<>> THEN 1
  ELSE 1 + (CHOOSE m \in { rows[j].id : j \in 1..Len(rows) } :
              \A j \in 1..Len(rows) : rows[j].id <= m)

\* What sqlite3 answers: OperationalError without the table, and now and
\* then otherwise (database is locked, disk I/O error).
WriteResults ==
  IF ~tableExists THEN {"error"}
  ELSE IF writeErrors < MaxWriteErrors THEN {"ok", "error"} ELSE {"ok"}

InitResults ==
  IF writeErrors < MaxWriteErrors THEN {"ok", "error"} ELSE {"ok"}

\* Mutant: the table is dropped and created anew at every start.
init_db_Recreate(exists, rows, w) ==
  IF w = "ok" THEN [exists |-> TRUE, rows |-> <<>>]
  ELSE [exists |-> exists, rows |-> rows]

\* init_db(): CREATE TABLE IF NOT EXISTS; an error is printed and
\* swallowed.
init_db(exists, rows, w) ==
  [exists |-> exists \/ w = "ok", rows |-> rows]

\* Mutant: a payload that does not parse is stored as a row without value.
insert_data_StoreUnparsed(rows, topic, payload_json, now, w) ==
  IF ~JsonValid(payload_json)
  THEN IF w # "error" THEN Append(rows, Row(NextId(rows), topic, Num(now), Null))
       ELSE rows
  ELSE LET data == json_loads(payload_json)
           measurement_time == Get(data, "timestamp", Num(now))
           value == Get(data, "value", Null)
       IN  IF value # Null /\ w = "ok"
           THEN Append(rows, Row(NextId(rows), topic, measurement_time, value))
           ELSE rows

\* Mutant: the check of value is left out.
insert_data_NoValueCheck(rows, topic, payload_json, now, w) ==
  IF ~JsonValid(payload_json) THEN rows
  ELSE LET data == json_loads(payload_json)
           measurement_time == Get(data, "timestamp", Num(now))
           value == Get(data, "value", Null)
       IN  IF w # "error"
           THEN Append(rows, Row(NextId(rows), topic, measurement_time, value))
           ELSE rows

\* Mutant: the row is filed under the last level of the topic.
insert_data_LastLevel(rows, topic, payload_json, now, w) ==
  IF ~JsonValid(payload_json) THEN rows
  ELSE LET data == json_loads(payload_json)
           measurement_time == Get(data, "timestamp", Num(now))
           value == Get(data, "value", Null)
       IN  IF value # Null /\ w = "ok"
           THEN Append(rows, Row(NextId(rows), <<topic[Len(topic)]>>,
                                 measurement_time, value))
           ELSE rows

\* Mutant: the time of receipt is stored, the record's timestamp ignored.
insert_data_ReceiptTime(rows, topic, payload_json, now, w) ==
  IF ~JsonValid(payload_json) THEN rows
  ELSE LET data == json_loads(payload_json)
           value == Get(data, "value", Null)
       IN  IF value # Null /\ w = "ok"
           THEN Append(rows, Row(NextId(rows), topic, Num(now), value))
           ELSE rows

\* Mutant: data.get('timestamp') without the default.
insert_data_NoFallback(rows, topic, payload_json, now, w) ==
  IF ~JsonValid(payload_json) THEN rows
  ELSE LET data == json_loads(payload_json)
           measurement_time == Get(data, "timestamp", Null)
           value == Get(data, "value", Null)
       IN  IF value # Null /\ w = "ok"
           THEN Append(rows, Row(NextId(rows), topic, measurement_time, value))
           ELSE rows

\* Mutant: a reading already in the table is not stored again.
insert_data_Dedup(rows, topic, payload_json, now, w) ==
  IF ~JsonValid(payload_json) THEN rows
  ELSE LET data == json_loads(payload_json)
           measurement_time == Get(data, "timestamp", Num(now))
           value == Get(data, "value", Null)
       IN  IF /\ value # Null
              /\ w = "ok"
              /\ ~\E j \in 1..Len(rows) :
                    /\ rows[j].topic = topic
                    /\ rows[j].measurement_time = measurement_time
                    /\ rows[j].value = value
           THEN Append(rows, Row(NextId(rows), topic, measurement_time, value))
           ELSE rows

\* insert_data(topic, payload_json): the table after the call.  now is
\* time.time(), w what sqlite3 answers to the INSERT if one is made.
insert_data(rows, topic, payload_json, now, w) ==
  IF ~JsonValid(payload_json)
  THEN rows                            \* json.JSONDecodeError
  ELSE LET data == json_loads(payload_json)
           measurement_time == Get(data, "timestamp", Num(now))
           value == Get(data, "value", Null)
       IN  IF value # Null
           THEN IF w = "ok"
                THEN Append(rows, Row(NextId(rows), topic, measurement_time, value))
                ELSE rows                \* except Exception: [DB ERROR]
           ELSE rows                     \* missing 'value'

\* insert_data gets as far as the INSERT.
Inserts(payload_json) ==
  /\ JsonValid(payload_json)
  /\ Get(json_loads(payload_json), "value", Null) # Null

\* ------------------------------------------------------------ the collector
\* The __main__ block up to loop_forever(): init_db(), then client.connect,
\* which raises ConnectionRefusedError if the broker is not there.  The
\* database file outlives the process.
CollectorStart ==
  /\ cpc \in {"init", "refused", "crashed"}
  /\ \E w \in InitResults, up \in BOOLEAN :
       LET db == init_db(tableExists, store, w)
       IN  /\ tableExists' = db.exists
           /\ store' = db.rows
           /\ writeErrors' = IF w = "error" THEN writeErrors + 1 ELSE writeErrors
           /\ cpc' = IF up THEN "running" ELSE "refused"
           /\ clink' = IF up THEN "connecting" ELSE "down"
  /\ cinbox' = <<>>
  /\ UNCHANGED << cclock, tinjected, accepted, lastDelivery, response >>
  /\ UNCHANGED << agentVars, busVars, senderVars, writerVars >>

\* on_connect of the collector: it subscribes if reason_code is 0.  After
\* any other answer loop_forever() connects again, and the session is
\* where it was.
CollectorConnack ==
  /\ cpc = "running"
  /\ clink = "connecting"
  /\ \E reason_code \in {0, 5} :
       clink' = IF reason_code = 0 THEN "up" ELSE "connecting"
  /\ UNCHANGED << cpc, cinbox, cclock, tableExists, store, writeErrors, tinjected,
                  accepted, lastDelivery, response >>
  /\ UNCHANGED << agentVars, busVars, senderVars, writerVars >>

\* on_message of the collector, with the insert_data call it ends in.
\* msg.payload.decode() is outside every try: UnicodeDecodeError leaves
\* the callback and loop_forever(), main prints FATAL ERROR and the
\* finally block disconnects.
CollectorOnMessage ==
  /\ cpc = "running"
  /\ cinbox # <<>>
  /\ LET msg == Head(cinbox)
     IN  IF ~Decodable(msg.payload)
         THEN /\ cpc' = "crashed"
              /\ clink' = "down"
              /\ cinbox' = <<>>
              /\ lastDelivery' = [handled |-> TRUE, topic |-> msg.topic,
                                   payload |-> msg.payload, write |-> "none",
                                   now |-> cclock]
              /\ UNCHANGED << store, writeErrors, accepted >>
         ELSE \E w \in IF Inserts(msg.payload) THEN WriteResults ELSE {"none"} :
                /\ store' = insert_data(store, msg.topic, msg.payload, cclock, w)
                /\ writeErrors' = IF w = "error" THEN writeErrors + 1 ELSE writeErrors
                /\ accepted' = IF w = "ok" THEN accepted + 1 ELSE accepted
                /\ lastDelivery' = [handled |-> TRUE, topic |-> msg.topic,
                                     payload |-> msg.payload, write |-> w,
                                     now |-> cclock]
                /\ cinbox' = Tail(cinbox)
                /\ UNCHANGED << cpc, clink >>
  /\ cclock' = cclock + 1
  /\ UNCHANGED << tableExists, tinjected, response >>
  /\ UNCHANGED << agentVars, busVars, senderVars, writerVars >>

\* ------------------------------------------------------------ telemetry
\* The sensors started with --simulate.
Simulators == { a \in Agents : ~listen_commands[a] }

\* --interval, --base and --variance of the simulation
SimulateArgs == [interval |-> 1, base |-> 25004, variance |-> 0]

\* One pass of the while loop of simulate_continuous.
Simulate(a) ==
  /\ a \in launched
  /\ ~listen_commands[a]
  /\ mainpc[a] = "listening"
  /\ Len(published[a]) < MaxReadings
  /\ \E off \in Samples(SimulateArgs.variance), rc \in AgentPublishResults(a) :
       LET value == Round2(SimulateArgs.base + off)
           r == send_sensor_data(a, 0, value, rc)
       IN  /\ published' = [published EXCEPT ![a] = @ \o r.entry]
           /\ cinbox' = cinbox \o ToCollector(a, r.entry)
  /\ clock' = [clock EXCEPT ![a] = @ + SimulateArgs.interval]
  /\ UNCHANGED << launched, mainpc, link, drops, subs, inbox, connected,
                  command_active, frames, runs, lastHandled >>
  /\ UNCHANGED << busVars, senderVars, collectorVars >>

\* Payloads other clients of the bus publish under sensors/.
ForeignRecord == json_dumps(<< Item("timestamp", Num(900)), Item("value", Num(17000)),
                               Item("sensor_type", Str("pressure")) >>)
NoTimestamp == json_dumps(<< Item("value", Num(17000)) >>)
NoValue == json_dumps(<< Item("timestamp", Num(900)) >>)
NullValue == json_dumps(<< Item("timestamp", Num(900)), Item("value", Null) >>)
BadUtf8 == << Raw(255) >>

TelemetryMessages ==
  { [topic |-> <<"sensors", "lab", "pressure">>, payload |-> q] :
      q \in { ForeignRecord, NoTimestamp, NoValue, NullValue, BadJson, BadUtf8 } }

\* Some client publishes under sensors/; the broker hands the message to
\* the collector if its subscription is in place and matches.  These
\* clients publish one message at a time.
TelemetryInject ==
  /\ tinjected < MaxTelemetry
  /\ clink = "up"
  /\ cinbox = <<>>
  /\ \E m \in TelemetryMessages :
       /\ TopicMatches(m.topic, TOPIC_SUBSCRIPTION)
       /\ cinbox' = Append(cinbox, m)
  /\ tinjected' = tinjected + 1
  /\ UNCHANGED << cpc, clink, cclock, tableExists, store, writeErrors, accepted,
                  lastDelivery, response >>
  /\ UNCHANGED << agentVars, busVars, senderVars, writerVars >>

\* ------------------------------------------------------------ the dashboard
RecentLimit == 20

Range(q) == { q[j] : j \in 1..Len(q) }

\* ORDER BY measurement_time DESC: every order of the rows in which the
\* times do not increase; SQL leaves the order of equal times open.
RECURSIVE OrderByTimeDesc(_)
OrderByTimeDesc(S) ==
  IF S = {} THEN { <<>> }
  ELSE UNION { { <<r>> \o q : q \in OrderByTimeDesc(S \ {r}) } :
               r \in { x \in S : \A y \in S :
                                   x.measurement_time.n >= y.measurement_time.n } }

\* WHERE id IN (SELECT MAX(id) FROM sensor_readings GROUP BY topic)
MaxIdPerTopic(rows) ==
  { r \in Range(rows) : \A x \in Range(rows) : x.topic = r.topic => x.id <= r.id }

\* parts[-1] if len(parts) > 1 else 'unknown'
SensorTypeOf(topic) == IF Len(topic) > 1 THEN topic[Len(topic)] ELSE "unknown"

\* f"{sensor_type}-sensor"
SensorKey(type) == << type, "-sensor" >>

\* An element of a response; row is the table row it was made from, which
\* the response itself does not carry.
Reading(r) ==
  [sensor_id |-> SensorKey(SensorTypeOf(r.topic)), type |-> SensorTypeOf(r.topic),
   value |-> r.value, timestamp |-> r.measurement_time, row |-> r]

\* sensors[sensor_id] = {...}: a dict keeps the place of a key and its last
\* value.
RECURSIVE DictOf(_)
DictOf(q) ==
  IF q = <<>> THEN <<>>
  ELSE LET d == DictOf(SubSeq(q, 1, Len(q) - 1))
           x == Reading(q[Len(q)])
       IN  IF \E j \in 1..Len(d) : d[j].sensor_id = x.sensor_id
           THEN [j \in 1..Len(d) |-> IF d[j].sensor_id = x.sensor_id THEN x ELSE d[j]]
           ELSE Append(d, x)

\* GET /api/sensors: the bodies it may return for a table.
get_sensors(rows) == { DictOf(q) : q \in OrderByTimeDesc(MaxIdPerTopic(rows)) }

\* GET /api/readings: the bodies it may return for a table.
get_readings(rows) ==
  { [j \in 1..(IF Len(q) < RecentLimit THEN Len(q) ELSE RecentLimit) |-> Reading(q[j])] :
      q \in OrderByTimeDesc(Range(rows)) }

\* Mutant: a SELECT also returns the row of a transaction that is open.
SelectRows_Dirty ==
  IF dbLock = "none" THEN store ELSE Append(store, pending[dbLock])

\* What the SELECT of another connection returns: the committed rows.
SelectRows == store

\* The writers that are inside a transaction.
InTransaction == { w \in Writers : wpc[w] = "inserted" }

\* A request to one of the two read routes; without the table sqlite3
\* raises and the request fails.
GetSensors ==
  /\ IF tableExists
     THEN \E body \in get_sensors(SelectRows) :
            response' = [route |-> "sensors", body |-> body, rows |-> SelectRows,
                         during |-> InTransaction]
     ELSE response' = [route |-> "error", body |-> <<>>, rows |-> SelectRows,
                       during |-> InTransaction]
  /\ response' # response
  /\ UNCHANGED << cpc, clink, cinbox, cclock, tableExists, store, writeErrors,
                  tinjected, accepted, lastDelivery >>
  /\ UNCHANGED << agentVars, busVars, senderVars, writerVars >>

GetReadings ==
  /\ IF tableExists
     THEN \E body \in get_readings(SelectRows) :
            response' = [route |-> "readings", body |-> body, rows |-> SelectRows,
                         during |-> InTransaction]
     ELSE response' = [route |-> "error", body |-> <<>>, rows |-> SelectRows,
                       during |-> InTransaction]
  /\ response' # response
  /\ UNCHANGED << cpc, clink, cinbox, cclock, tableExists, store, writeErrors,
                  tinjected, accepted, lastDelivery >>
  /\ UNCHANGED << agentVars, busVars, senderVars, writerVars >>

\* ------------------------------------------------------------ ingestion
IngestNext ==
  \/ \E a \in Simulators :
       \/ Connect(a)
       \/ ConnectReturns(a)
       \/ BrokerConnack(a)
       \/ Dispatch(a)
       \/ Simulate(a)
  \/ CollectorStart
  \/ CollectorConnack
  \/ CollectorOnMessage
  \/ TelemetryInject
  \/ GetSensors
  \/ GetReadings

\* One simulating sensor, the collector and the dashboard.
InitIngest == launched = Simulators /\ InitRest

SpecIngest == InitIngest /\ [][IngestNext]_vars

\* ------------------------------------------------------------ ingestion: properties
\* The step is a call of the collector's on_message (only it reads the
\* collector's clock); Delivered is the message it is called with.
Ingests == cinbox # <<>> /\ cclock' # cclock
Delivered == Head(cinbox)

LastRow(rows) == rows[Len(rows)]

\* C12: a call of insert_data with a payload that does not parse as JSON
\* leaves the table as it is.
C12_UnparsedRejected ==
  [][ (Ingests /\ Decodable(Delivered.payload) /\ ~JsonValid(Delivered.payload))
      => store' = store ]_vars

\* Rows are in the table, and a payload that is not JSON has just been
\* handled by a collector that goes on running.
C12_Witness ==
  /\ lastDelivery.handled
  /\ lastDelivery.payload = BadJson
  /\ store # <<>>
  /\ cpc = "running"

\* C13: a payload that parses but has no value field does not change the
\* number of rows, and no row of the table ever has a null value.
C13_ValuelessRejected ==
  [][ /\ (Ingests /\ JsonValid(Delivered.payload)
           /\ ~Has(json_loads(Delivered.payload), "value"))
         => Len(store') = Len(store)
      /\ \A j \in 1..Len(store') : store'[j].value # Null ]_vars

\* Rows are in the table, and a payload without value has just been handled.
C13_Witness ==
  /\ lastDelivery.handled
  /\ lastDelivery.payload = NoValue
  /\ store # <<>>

\* C14, as stated: every message whose payload parses as JSON and has a
\* value field appends exactly one row, with the topic of the message and
\* the value of the payload.
C14_EveryValueFieldStored ==
  [][ (Ingests /\ Decodable(Delivered.payload) /\ JsonValid(Delivered.payload)
         /\ Has(json_loads(Delivered.payload), "value"))
      => /\ Len(store') = Len(store) + 1
         /\ SubSeq(store', 1, Len(store)) = store
         /\ LastRow(store').topic = Delivered.topic
         /\ LastRow(store').value = Get(json_loads(Delivered.payload), "value", Null)
    ]_vars

\* C14, amended: every message whose payload parses as JSON and has a
\* value that is not null appends exactly one row, with the full topic of
\* the message and the value of the payload, provided sqlite3 carries out
\* the INSERT; if sqlite3 raises, the error is printed and no row is
\* appended.
C14_AcceptedStored ==
  [][ (Ingests /\ Decodable(Delivered.payload) /\ JsonValid(Delivered.payload)
         /\ Get(json_loads(Delivered.payload), "value", Null) # Null)
      => IF lastDelivery'.write = "ok"
         THEN /\ Len(store') = Len(store) + 1
              /\ SubSeq(store', 1, Len(store)) = store
              /\ LastRow(store').topic = Delivered.topic
              /\ LastRow(store').value =
                   Get(json_loads(Delivered.payload), "value", Null)
         ELSE store' = store
    ]_vars

\* A record published on a topic of three levels has just been stored
\* under that topic.
C14_Witness ==
  /\ lastDelivery.handled
  /\ lastDelivery.write = "ok"
  /\ lastDelivery.topic = <<"sensors", "lab", "pressure">>
  /\ store # <<>>
  /\ LastRow(store).topic = <<"sensors", "lab", "pressure">>
  /\ LastRow(store).value = Num(17000)

\* C15: when the collector stores a record that send_sensor_data has
\* published, the row's value is the value send_sensor_data was called
\* with and its measurement_time the time send_sensor_data read.
C15_RoundTrip ==
  [][ Ingests
      => \A a \in Agents : \A j \in 1..Len(published[a]) :
           (/\ published[a][j].topic = Delivered.topic
            /\ published[a][j].payload = Delivered.payload
            /\ lastDelivery'.write = "ok")
           => /\ Len(store') = Len(store) + 1
              /\ LastRow(store').value = Num(published[a][j].value)
              /\ LastRow(store').measurement_time = Num(published[a][j].timestamp)
    ]_vars

\* The sensor's second reading, taken one interval after the first, is in
\* the table with its rounded value and its own time.
C15_Witness ==
  \E j \in 1..Len(store) :
    /\ store[j].topic = TelemetryTopic(DefaultPrefix, "pressure")
    /\ store[j].measurement_time = Num(1001)
    /\ store[j].value = Num(25000)

\* C16: the rows have distinct ids, and there are as many rows as there
\* were deliveries that passed the checks and were written; a delivery
\* that repeats an earlier one counts again.
C16_NoDeduplication ==
  /\ \A i, j \in 1..Len(store) : i # j => store[i].id # store[j].id
  /\ Len(store) = accepted

\* The same record was delivered twice on the same topic and is in the
\* table twice.
C16_Witness ==
  \E i, j \in 1..Len(store) :
    /\ i < j
    /\ store[i].id # store[j].id
    /\ store[i].topic = store[j].topic
    /\ store[i].measurement_time = store[j].measurement_time
    /\ store[i].value = store[j].value

\* C17: no message makes an exception leave on_message and end the
\* collector's loop.
C17_StreamNeverHalts == cpc # "crashed"

\* Topics of the rows a response was computed from.
TopicsOf(rows) == { rows[j].topic : j \in 1..Len(rows) }

\* C18: a response of /api/sensors has exactly one entry for each topic of
\* the table, made from the row of that topic with the largest id.
C18_OneEntryPerTopic ==
  response.route = "sensors"
  => /\ Len(response.body) = Cardinality(TopicsOf(response.rows))
     /\ \A t \in TopicsOf(response.rows) :
          \E j \in 1..Len(response.body) :
            /\ response.body[j].row.topic = t
            /\ \A k \in 1..Len(response.rows) :
                 response.rows[k].topic = t
                 => response.rows[k].id <= response.body[j].row.id

\* C19: in a response of /api/readings a row that comes before another
\* has the larger id (checked for rows whose measurement times differ,
\* SQL leaving the order of equal times open), and no row left out has a
\* larger id than a row returned.
C19_RecentByIdDesc ==
  response.route = "readings"
  => /\ \A j, k \in 1..Len(response.body) :
          (j < k /\ response.body[j].row.measurement_time
                      # response.body[k].row.measurement_time)
          => response.body[j].row.id > response.body[k].row.id
     /\ \A r \in Range(response.rows) :
          (\A j \in 1..Len(response.body) : response.body[j].row # r)
          => \A j \in 1..Len(response.body) : r.id < response.body[j].row.id

\* C20: a step never removes or changes a row of the table, and what a
\* read has returned stays in the table as it was returned.
C20_AppendOnly ==
  [][ /\ Len(store') >= Len(store)
      /\ SubSeq(store', 1, Len(store)) = store
      /\ \A j \in 1..Len(response'.body) :
           \E k \in 1..Len(store') : store'[k] = response'.body[j].row
    ]_vars

\* Rows were returned by a read, and the table has grown since, by a row
\* that carries the time of receipt.
C20_Witness ==
  /\ response.route \in {"sensors", "readings"}
  /\ response.body # <<>>
  /\ Len(store) > Len(response.rows)
  /\ \E j \in 1..Len(store) : store[j].measurement_time.n >= 2000
  /\ lastDelivery.write = "ok"

\* ------------------------------------------------------------ agent: connection and run flag
\* The agents connecting, with the broker refusing or dropping sessions.
ConnectNext ==
  \E a \in Fleet :
    \/ Connect(a)
    \/ ConnectReturns(a)
    \/ ConnectTimeout(a)
    \/ BrokerConnack(a)
    \/ Reconnect(a)
    \/ BrokerDrop(a)
    \/ Dispatch(a)

\* The wait loop of connect() is polled ten times a second and is limited
\* by the clock, so the main thread leaves it.
SpecConnect ==
  /\ InitFleet
  /\ [][ConnectNext]_vars
  /\ \A a \in Fleet : WF_vars(ConnectReturns(a) \/ ConnectTimeout(a))

\* C23: a connect() that is waiting comes to an end, returning or failing
\* with the timeout; it returns only when connected has been set by an
\* acknowledgement; and once it has failed nothing connects again.
C23_ConnectBounded ==
  /\ \A a \in Fleet :
       (mainpc[a] = "waiting") ~> (mainpc[a] \in {"listening", "failed"})
  /\ [][ \A a \in Fleet :
           /\ (mainpc[a] = "waiting" /\ mainpc'[a] = "listening") => connected[a]
           /\ (mainpc[a] = "waiting" /\ mainpc'[a] = "failed") => ~connected[a]
           /\ mainpc[a] = "failed" => (mainpc'[a] = "failed" /\ link'[a] = "down")
      ]_vars

\* One connect() has returned after the broker's acknowledgement, the
\* other has failed after a refused one.
C23_Witness ==
  /\ mainpc["temperature"] = "listening"
  /\ mainpc["humidity"] = "failed"
  /\ lastHandled["humidity"] = "connack_fail"
  /\ link["humidity"] = "down"

C29_IdleWhenNoLoop ==
  \A a \in Agents : frames[a] = <<>> => ~command_active[a]

\* C30: a run takes at most count passes of the loop, every pass
\* publishes at most one record, none is made up for later, and the
\* records published for the run are those its passes published: never
\* more than count, and count when the loop has gone through its range.
C30_RunBounded ==
  \A a \in Agents : \A k \in 1..Len(frames[a]) :
    LET f == frames[a][k]
    IN  ValidRun(f)
        => /\ f.i <= f.count
           /\ f.sent <= f.i + (IF f.pc = "sleep" THEN 1 ELSE 0)
           /\ f.sent <= f.count
           /\ RunCount(a, f.run) = f.sent
           /\ (f.pc = "end" /\ f.i = f.count) => f.sent = f.count

\* A run of two readings is over, with both published, although its
\* session broke while it ran.
C30_Witness ==
  \E a \in Agents : \E k \in 1..Len(frames[a]) :
    LET f == frames[a][k]
    IN  /\ f.pc = "end"
        /\ f.count = 2
        /\ f.dropAt = 0
        /\ f.sent = 2
        /\ RunCount(a, f.run) = 2

\* C28: a payload with a value and without timestamp is stored, sqlite3
\* carrying out the INSERT, with the collector's time of receipt as
\* measurement_time; a payload with a value and a timestamp is stored with
\* that timestamp.
C28_ReceiptTimeFallback ==
  [][ (Ingests /\ Decodable(Delivered.payload) /\ Inserts(Delivered.payload)
         /\ lastDelivery'.write = "ok")
      => /\ Len(store') = Len(store) + 1
         /\ LastRow(store').measurement_time =
              IF Has(json_loads(Delivered.payload), "timestamp")
              THEN Get(json_loads(Delivered.payload), "timestamp", Null)
              ELSE Num(cclock)
    ]_vars

\* A record with its own (older) timestamp and one without timestamp are
\* both in the table, the second under the time of its receipt.
C28_Witness ==
  /\ lastDelivery.handled
  /\ lastDelivery.payload = NoTimestamp
  /\ lastDelivery.write = "ok"
  /\ LastRow(store).measurement_time = Num(lastDelivery.now)
  /\ \E j \in 1..Len(store) :
       store[j].measurement_time = Num(900) /\ store[j].measurement_time.n < cclock

\* ------------------------------------------------------------ dispatch paths
\* Command lines of the two command_sender.py copies: --sensor-id,
\* --command and --count as given, the other options at their defaults.
CliArgs ==
  [sensor_id : {"temperature", Broadcast}, command : {"measure", "stop", "reset"},
   count : 1..MaxCount, interval : {DefaultInterval}, base : {DefaultBase},
   variance : {DefaultVariance}]

\* choices=['measure', 'stop']: argparse exits on anything else.
ArgsAccepted(args) == args.command \in {"measure", "stop"}

\* main(): command_data, with the parameters only for a measure.
MainCommandData(args) ==
  IF args.command = "measure"
  THEN << Item("command", Str(args.command)), Item("count", Num(args.count)),
          Item("interval", Num(args.interval)), Item("base", Num(args.base)),
          Item("variance", Num(args.variance)) >>
  ELSE << Item("command", Str(args.command)) >>

\* main() after send_command: what the call returned is not looked at; main
\* sleeps, prints "Command sent successfully" and ends with status 0.
MainReport(result) == "success"

\* main() of a command sender run with one of the command lines of argset,
\* from parse_args to send_command; connect() has returned and the broker
\* has routed the earlier messages.
RunMain(s, argset) ==
  /\ sends["host"] + sends["edge"] < MaxSends
  /\ sconnected[s]
  /\ cmdBus = <<>>
  /\ \E args \in argset, rc \in ClientPublishResults(slink[s] = "up") :
       IF ArgsAccepted(args)
       THEN LET r == send_command(s, args.sensor_id, MainCommandData(args), rc)
            IN  /\ lastCall' = [lastCall EXCEPT ![s] =
                      [made |-> TRUE, target |-> args.sensor_id,
                       envelope |-> MainCommandData(args),
                       linkUp |-> slink[s] = "up", attempts |-> r.attempts,
                       result |-> r.result, reported |-> MainReport(r.result)]]
                /\ cmdBus' = cmdBus \o Accepted(r.attempts)
       ELSE UNCHANGED << lastCall, cmdBus >>
  /\ sends' = [sends EXCEPT ![s] = @ + 1]
  /\ UNCHANGED << sconnected, slink, injected >>
  /\ UNCHANGED << agentVars, ingestVars >>

Main(s) == RunMain(s, CliArgs)

\* Bodies of POST /api/command/<sensor_id>: those the page's sendCommand
\* builds for its Measure, Start and Stop buttons, and others a client of
\* the HTTP interface may send.
DashboardRequests ==
  { << Item("command", Str("measure")), Item("count", Num(c)),
       Item("interval", Num(DefaultInterval)) >> : c \in 1..MaxCount }
  \cup { << Item("command", Str("stop")) >>,
         << Item("command", Str("start")) >>,
         << Item("command", Str("stop")), Item("count", Num(1)) >>,
         << Item("count", Num(1)) >> }

\* The payload the route builds from request.json.
RoutePayload(data) ==
  << Item("command", Get(data, "command", Null)) >>
  \o (IF Has(data, "count") THEN << Item("count", Get(data, "count", Null)) >>
      ELSE <<>>)
  \o (IF Has(data, "interval")
      THEN << Item("interval", Get(data, "interval", Null)) >> ELSE <<>>)

\* send_command of the dashboard: mqtt_client.publish, whatever the
\* request says and whatever the client's connection is; the broker has
\* routed the earlier messages.
DashboardCommand ==
  /\ injected < MaxCmds
  /\ cmdBus = <<>>
  /\ \E target \in {"temperature", Broadcast}, data \in DashboardRequests,
        rc \in PublishResults :
       cmdBus' = IF rc = "ok"
                 THEN Append(cmdBus, [topic |-> CommandTopic(target),
                                      payload |-> json_dumps(RoutePayload(data))])
                 ELSE cmdBus
  /\ injected' = injected + 1
  /\ UNCHANGED << agentVars, senderVars, ingestVars >>

DispatchNext ==
  \/ \E s \in Senders :
       \/ SenderConnack(s)
       \/ SenderDrop(s)
       \/ Main(s)
  \/ DashboardCommand
  \/ BrokerForward

\* The three dispatch paths and the broker; no agent is connected.
SpecDispatch == Init /\ [][DispatchNext]_vars

\* The command field of a message on the bus.
CommandField(m) == Get(json_loads(m.payload), "command", Null)

\* C26: a stop envelope on the bus has the command field and nothing else.
C26_StopCarriesNoParameters ==
  \A j \in 1..Len(cmdBus) :
    CommandField(cmdBus[j]) = Str("stop") => Len(json_loads(cmdBus[j].payload)) = 1

\* C27: every envelope on the bus has command measure or command stop.
C27_OnlyKnownCommands ==
  \A j \in 1..Len(cmdBus) :
    CommandField(cmdBus[j]) \in {Str("measure"), Str("stop")}

\* ------------------------------------------------------------ command to store
\* Runs of the command sender in the end-to-end scenario.
MaxRuns == 1

\* Bases of the end-to-end runs: one with two decimals, one with three.
EndToEndBases == {25000, 25004}

\* --sensor-id temperature --command measure --count N --interval 0
\* --base b --variance 0
EndToEndArgs ==
  [sensor_id : {"temperature"}, command : {"measure"}, count : 1..MaxCount,
   interval : {0}, base : EndToEndBases, variance : {0}]

\* The agent is connected, subscribed and idle.
IdleConnected(a) ==
  /\ connected[a]
  /\ link[a] = "up"
  /\ CommandTopic(sensor_id[a]) \in subs[a]
  /\ frames[a] = <<>>
  /\ inbox[a] = <<>>
  /\ ~command_active[a]

\* The host's command sender is run with such a command line while the
\* agent is idle and the collector is connected and subscribed.
MeasureOnce ==
  /\ sends["host"] < MaxRuns
  /\ IdleConnected("temperature")
  /\ clink = "up"
  /\ RunMain("host", EndToEndArgs)

EndToEndNext ==
  \/ Connect("temperature")
  \/ ConnectReturns("temperature")
  \/ BrokerConnack("temperature")
  \/ Dispatch("temperature")
  \/ Tick("temperature")
  \/ Wake("temperature")
  \/ Finish("temperature")
  \/ SenderConnack("host")
  \/ MeasureOnce
  \/ BrokerForward
  \/ CollectorStart
  \/ CollectorConnack
  \/ CollectorOnMessage

\* Sender, bus, agent, bus, collector and store.  The agent's network
\* thread goes on with the handler it is in, and the collector's
\* loop_forever() takes every message handed to it.
SpecEndToEnd ==
  /\ Init
  /\ [][EndToEndNext]_vars
  /\ WF_vars(Tick("temperature") \/ Wake("temperature") \/ Finish("temperature"))
  /\ WF_vars(CollectorOnMessage)

\* The readings of run f.run published so far.
RunEntries(a, f) == { j \in 1..Len(published[a]) : published[a][j].run = f.run }

\* All the telemetry handed to the collector is in the table, row for row.
StoreMirrorsPublished(a) ==
  /\ Len(store) = Len(published[a])
  /\ \A j \in 1..Len(store) :
       /\ store[j].topic = TelemetryTopic(DefaultPrefix, "temperature")
       /\ store[j].topic = published[a][j].topic
       /\ store[j].value = Num(published[a][j].value)

\* C25 as stated: the run of count N publishes N records with value equal
\* to base, and once the collector has taken them the table has those rows
\* on sensors/temperature.
C25_EndToEndExact ==
  LET a == "temperature"
  IN  /\ \A k \in 1..Len(frames[a]) :
           LET f == frames[a][k]
           IN  f.pc = "end"
               => /\ Cardinality(RunEntries(a, f)) = f.count
                  /\ \A j \in RunEntries(a, f) : published[a][j].value = f.base.n
      /\ cinbox = <<>> => StoreMirrorsPublished(a)

\* C25: the run of count N, interval 0 and variance 0 publishes N records
\* with value equal to base rounded to two decimals; if the broker took
\* every publish and sqlite3 carried out every statement, the table has
\* those rows on sensors/temperature once the collector has taken the
\* messages; and the run ends and the collector takes every message.
C25_EndToEndRounded ==
  LET a == "temperature"
  IN  /\ [](/\ \A k \in 1..Len(frames[a]) :
                frames[a][k].pc = "end"
                => /\ Cardinality(RunEntries(a, frames[a][k])) = frames[a][k].count
                   /\ \A j \in RunEntries(a, frames[a][k]) :
                        published[a][j].value = Round2(frames[a][k].base.n)
             /\ ((cinbox = <<>> /\ Rejected(a) = 0 /\ writeErrors = 0)
                 => StoreMirrorsPublished(a)))
      /\ (frames[a] # <<>> \/ cinbox # <<>>) ~> (frames[a] = <<>> /\ cinbox = <<>>)

\* A run of two readings with base 25.004 is over and the table has its
\* two rows, with value 25.0.
C25_Witness ==
  LET a == "temperature"
  IN  /\ \E k \in 1..Len(frames[a]) :
           /\ frames[a][k].pc = "end"
           /\ frames[a][k].count = 2
           /\ frames[a][k].base = Num(25004)
           /\ frames[a][k].run = 1
      /\ cinbox = <<>>
      /\ Rejected(a) = 0
      /\ writeErrors = 0
      /\ Len(store) = 2
      /\ \A j \in 1..2 : store[j].value = Num(25000)

\* ------------------------------------------------------------ concurrent writers
\* Messages the broker hands to all the writers together.
MaxAppends == 3

WriterMessages ==
  { [topic |-> <<"sensors", "lab", "pressure">>, payload |-> q] :
      q \in { ForeignRecord, NoTimestamp, NoValue } }

\* A data_collector.py process starts: init_db().
WriterStart(w) ==
  /\ wpc[w] = "init"
  /\ \E r \in InitResults :
       LET db == init_db(tableExists, store, r)
       IN  /\ tableExists' = db.exists
           /\ store' = db.rows
           /\ writeErrors' = IF r = "error" THEN writeErrors + 1 ELSE writeErrors
  /\ wpc' = [wpc EXCEPT ![w] = "idle"]
  /\ UNCHANGED << cpc, clink, cinbox, cclock, tinjected, accepted, lastDelivery,
                  response, pending, dbLock >>
  /\ UNCHANGED << agentVars, busVars, senderVars >>

\* Mutant: the INSERT does not wait for the database's write lock.
LockFree_Always(w) == TRUE

\* sqlite3 lets a connection write when no other connection holds the
\* write lock.
LockFree(w) == dbLock = "none"

\* insert_data up to cursor.execute: the INSERT opens a transaction, takes
\* the write lock and is given its id.  Without the table, or when the lock
\* is not released before the busy timeout, sqlite3 raises and the reading
\* is dropped.
WriterInsert(w) ==
  /\ wpc[w] = "idle"
  /\ tinjected < MaxAppends
  /\ \E m \in WriterMessages :
       IF ~Inserts(m.payload)
       THEN UNCHANGED << wpc, pending, dbLock, writeErrors >>
       ELSE IF ~tableExists \/ ~LockFree(w)
       THEN /\ writeErrors' = writeErrors + 1
            /\ UNCHANGED << wpc, pending, dbLock >>
       ELSE /\ pending' = [pending EXCEPT ![w] =
                   LastRow(insert_data(store, m.topic, m.payload, cclock, "ok"))]
            /\ wpc' = [wpc EXCEPT ![w] = "inserted"]
            /\ dbLock' = w
            /\ UNCHANGED writeErrors
  /\ tinjected' = tinjected + 1
  /\ cclock' = cclock + 1
  /\ UNCHANGED << cpc, clink, cinbox, tableExists, store, accepted, lastDelivery,
                  response >>
  /\ UNCHANGED << agentVars, busVars, senderVars >>

\* conn.commit() and conn.close(): the row is in the table and the lock is
\* released; if the commit raises, the transaction is rolled back when the
\* connection goes.
WriterCommit(w) ==
  /\ wpc[w] = "inserted"
  /\ \E r \in WriteResults :
       /\ store' = IF r = "ok" THEN Append(store, pending[w]) ELSE store
       /\ accepted' = IF r = "ok" THEN accepted + 1 ELSE accepted
       /\ writeErrors' = IF r = "error" THEN writeErrors + 1 ELSE writeErrors
  /\ wpc' = [wpc EXCEPT ![w] = "idle"]
  /\ pending' = [pending EXCEPT ![w] = NoRow]
  /\ dbLock' = IF dbLock = w THEN "none" ELSE dbLock
  /\ UNCHANGED << cpc, clink, cinbox, cclock, tableExists, tinjected, lastDelivery,
                  response >>
  /\ UNCHANGED << agentVars, busVars, senderVars >>

StoreNext ==
  \/ \E w \in Writers :
       \/ WriterStart(w)
       \/ WriterInsert(w)
       \/ WriterCommit(w)
  \/ GetSensors
  \/ GetReadings

\* Two collectors on one database file, and the dashboard reading it.
SpecStore == Init /\ [][StoreNext]_vars

\* C21: the ids of the table's rows are different from each other and
\* increase in the order in which the rows were committed.
C21_IdsIncreaseInCommitOrder ==
  \A j, k \in 1..Len(store) : j < k => store[j].id < store[k].id

\* A writer is inside its transaction with the row of id 2, after the row
\* of id 1 was committed and an INSERT of the other writer found the
\* database locked.
C21_Witness ==
  /\ Len(store) = 1
  /\ store[1].id = 1
  /\ writeErrors = 1
  /\ tinjected = 3
  /\ \E w \in Writers :
       /\ wpc[w] = "inserted"
       /\ pending[w].id = 2
       /\ \A v \in Writers \ {w} : wpc[v] = "idle"

\* The step is a request to one of the read routes.
Reads == response' # response

\* C22: a read returns the committed rows, as they are before or after an
\* append, and nothing of a row whose transaction is open.
C22_ReadsSeeCommittedRows ==
  [][ Reads
      => /\ response'.rows = store
         /\ store' = store
         /\ \A j \in 1..Len(response'.body) :
              response'.body[j].row \in Range(store)
         /\ \A w \in InTransaction :
              /\ pending[w] \notin Range(response'.rows)
              /\ \A j \in 1..Len(response'.body) : response'.body[j].row # pending[w]
    ]_vars

\* /api/readings answered while a writer was inside its transaction: the
\* response has the committed row and not the pending one.
C22_Witness ==
  /\ response.route = "readings"
  /\ response.during # {}
  /\ Len(response.rows) = 1
  /\ Len(response.body) = 1
  /\ response.rows = store
  /\ \E w \in Writers : wpc[w] = "inserted" /\ pending[w].id = 2

\* ------------------------------------------------------------ directed commands
\* A sensor with the default id and one started with --sensor-id '#', both
\* with --listen.
Routed == {"temperature", "monitor"}

\* Some client of the bus publishes a command on commands/temperature.
DirectedInject ==
  /\ injected < MaxCmds
  /\ cmdBus = <<>>
  /\ \E payload \in FleetPayloads :
       cmdBus' = Append(cmdBus, [topic |-> CommandTopic(sensor_id["temperature"]),
                                 payload |-> payload])
  /\ injected' = injected + 1
  /\ UNCHANGED << agentVars, senderVars, ingestVars >>

RoutingNext ==
  \/ \E a \in Routed :
       \/ Connect(a)
       \/ ConnectReturns(a)
       \/ BrokerConnack(a)
       \/ Dispatch(a)
       \/ Tick(a)
       \/ Finish(a)
  \/ DirectedInject
  \/ BrokerForward

InitRouting == launched = Routed /\ InitRest

SpecRouting == InitRouting /\ [][RoutingNext]_vars

\* The topic is commands/A, A being neither the broadcast value nor the
\* sensor id of b.
DirectedElsewhere(topic, b) ==
  /\ Len(topic) = 2
  /\ topic[1] = "commands"
  /\ topic[2] \notin {Broadcast, sensor_id[b]}

\* C31: a command on commands/A, A not the broadcast value, is handed only
\* to agents whose sensor id is A, and no other agent changes its
\* command_active or its runs, or publishes, on account of it.
C31_DirectedOnly ==
  [][ \A b \in launched :
        /\ (/\ cmdBus # <<>>
             /\ cmdBus' = Tail(cmdBus)
             /\ DirectedElsewhere(Head(cmdBus).topic, b))
            => /\ inbox'[b] = inbox[b]
               /\ frames'[b] = frames[b]
        /\ (/\ inbox[b] # <<>>
             /\ inbox'[b] = Tail(inbox[b])
             /\ Head(inbox[b]).type = "message"
             /\ DirectedElsewhere(Head(inbox[b]).topic, b))
            => /\ command_active'[b] = command_active[b]
               /\ frames'[b] = frames[b]
               /\ runs'[b] = runs[b]
               /\ published'[b] = published[b]
    ]_vars

\* C32: a run of the command sender's main reports success only if its
\* send_command call published the command.
C32_SuccessOnlyIfPublished ==
  \A s \in Senders :
    lastCall[s].reported = "success"
    => /\ lastCall[s].result
       /\ Accepted(lastCall[s].attempts) # <<>>

\* ------------------------------------------------------------ counts below one
\* Measure envelopes with count -1, 0 and the positive counts, and a stop.
CountPayloads ==
  { json_dumps(MeasureEnvelope(c, 1, 25000, 0)) : c \in -1..MaxCount }
  \cup { json_dumps(StopEnvelope) }

\* Some client of the bus publishes one of them on commands/temperature.
CountInject ==
  /\ injected < MaxCmds
  /\ cmdBus = <<>>
  /\ Receives("temperature", CommandTopic(sensor_id["temperature"]))
  /\ \E payload \in CountPayloads :
       cmdBus' = Append(cmdBus, [topic |-> CommandTopic(sensor_id["temperature"]),
                                 payload |-> payload])
  /\ injected' = injected + 1
  /\ UNCHANGED << agentVars, senderVars, ingestVars >>

CountNext ==
  \/ Connect("temperature")
  \/ ConnectReturns("temperature")
  \/ BrokerConnack("temperature")
  \/ Dispatch("temperature")
  \/ Tick("temperature")
  \/ Wake("temperature")
  \/ Finish("temperature")
  \/ CountInject
  \/ BrokerForward

\* The agent's network thread goes on with the handler it is in.
SpecCount ==
  /\ Init
  /\ [][CountNext]_vars
  /\ WF_vars(Tick("temperature") \/ Wake("temperature") \/ Finish("temperature"))

\* A run whose count is zero or negative is in progress at a.
EmptyRun(a) == \E k \in 1..Len(frames[a]) : frames[a][k].count <= 0

\* C33: a run started by a measure whose count is zero or negative
\* publishes nothing and never sleeps; on_message returns from it with
\* command_active False and what the agent has published as it was.
C33_EmptyRunIdles ==
  /\ [](\A a \in Agents : \A k \in 1..Len(frames[a]) :
         frames[a][k].count <= 0
         => /\ frames[a][k].sent = 0
            /\ frames[a][k].i = 0
            /\ frames[a][k].pc # "sleep"
            /\ RunCount(a, frames[a][k].run) = 0)
  /\ [][ \A a \in Agents :
          (EmptyRun(a) /\ frames'[a] # frames[a])
          => /\ published'[a] = published[a]
             /\ clock'[a] = clock[a]
             /\ (frames'[a] = <<>> => ~command_active'[a]) ]_vars
  /\ \A a \in Agents : EmptyRun(a) ~> (frames[a] = <<>> /\ ~command_active[a])

\* The agent's only run so far was started by a measure with count 0 or
\* -1: it is over, nothing was published and the agent is idle.
C33_Witness ==
  LET a == "temperature"
  IN  /\ runs[a] = 1
      /\ injected = 1
      /\ lastHandled[a] = "measure"
      /\ frames[a] = <<>>
      /\ inbox[a] = <<>>
      /\ published[a] = <<>>
      /\ ~command_active[a]

\* ------------------------------------------------------------ topic prefixes
\* Sensors with the default prefix, with sensors/lab and with lab.
Prefixed == {"temperature", "humidity", "monitor"}

\* Some client of the bus asks every sensor for one reading, once all of
\* them listen, none is measuring and the collector has nothing to handle.
PrefixInject ==
  /\ injected < MaxRuns
  /\ cmdBus = <<>>
  /\ \A a \in Prefixed : IdleConnected(a)
  /\ cinbox = <<>>
  /\ cmdBus' = Append(cmdBus, [topic |-> CommandTopic(Broadcast),
                               payload |-> json_dumps(MeasureEnvelope(1, 0, 25000, 0))])
  /\ injected' = injected + 1
  /\ UNCHANGED << agentVars, senderVars, ingestVars >>

PrefixNext ==
  \/ \E a \in Prefixed :
       \/ Connect(a)
       \/ ConnectReturns(a)
       \/ BrokerConnack(a)
       \/ Dispatch(a)
       \/ Tick(a)
       \/ Finish(a)
  \/ PrefixInject
  \/ BrokerForward
  \/ CollectorStart
  \/ CollectorConnack
  \/ CollectorOnMessage

InitPrefix == launched = Prefixed /\ InitRest

SpecPrefix == InitPrefix /\ [][PrefixNext]_vars

\* The step is a client.publish of send_sensor_data at agent a.
Publishes(a) == Len(published'[a]) = Len(published[a]) + 1
Sent(a) == published'[a][Len(published'[a])]

\* The table has a row with this topic.
Stored(topic) == \E j \in 1..Len(store) : store[j].topic = topic

\* C34 as stated: every row is under sensors/; a sensor whose prefix is not
\* the default has no row; and a record published under sensors/<type>
\* while the collector is connected is handed to it and stored.
C34_OnlyDefaultPrefixStored ==
  /\ [](\A j \in 1..Len(store) : TopicMatches(store[j].topic, TOPIC_SUBSCRIPTION))
  /\ [](\A a \in Agents :
          topic_prefix[a] # DefaultPrefix
          => ~Stored(TelemetryTopic(topic_prefix[a], sensor_type[a])))
  /\ [][ /\ \A a \in Agents :
             (Publishes(a) /\ clink = "up"
              /\ Sent(a).topic = TelemetryTopic(DefaultPrefix, sensor_type[a]))
             => cinbox' = Append(cinbox, [topic |-> Sent(a).topic,
                                          payload |-> Sent(a).payload])
         /\ (Ingests /\ Delivered.topic[1] = "sensors")
            => /\ Len(store') = Len(store) + 1
               /\ LastRow(store').topic = Delivered.topic ]_vars

\* C34: every row is under sensors/; what a sensor publishes on a topic
\* outside sensors/ is not handed to the collector and has no row, while a
\* prefix below sensors/ is stored like the default one; a record that
\* the broker accepts on a topic under sensors/ while the collector is
\* connected and subscribed is handed to it, and stored with its topic
\* if sqlite3 carries out the INSERT.
C34_SensorsSubtreeStored ==
  /\ [](\A j \in 1..Len(store) : TopicMatches(store[j].topic, TOPIC_SUBSCRIPTION))
  /\ [](\A a \in Agents :
          ~TopicMatches(TelemetryTopic(topic_prefix[a], sensor_type[a]),
                        <<"sensors", "#">>)
          => ~Stored(TelemetryTopic(topic_prefix[a], sensor_type[a])))
  /\ [][ /\ \A a \in Agents :
             Publishes(a)
             => IF /\ clink = "up"
                   /\ Sent(a).rc = "ok"
                   /\ Sent(a).topic[1] = "sensors"
                THEN cinbox' = Append(cinbox, [topic |-> Sent(a).topic,
                                               payload |-> Sent(a).payload])
                ELSE cinbox' = cinbox
         /\ Ingests
            => IF lastDelivery'.write = "ok"
               THEN /\ Len(store') = Len(store) + 1
                    /\ LastRow(store').topic = Delivered.topic
               ELSE store' = store ]_vars

\* After one request to all sensors the table has the reading published
\* under sensors/temperature and the one under sensors/lab/humidity, and
\* none for what the third sensor published under lab/monitor.
C34_Witness ==
  /\ Stored(<<"sensors", "temperature">>)
  /\ Stored(<<"sensors", "lab", "humidity">>)
  /\ published["monitor"] # <<>>
  /\ published["monitor"][1].topic = <<"lab", "monitor">>
  /\ published["monitor"][1].rc = "ok"
  /\ ~Stored(<<"lab", "monitor">>)
  /\ cinbox = <<>>
  /\ Len(store) = 2

=============================================================================
